---------------------------- MODULE Spec2Model ----------------------------
(***************************************************************************)
(* Model of metadata_lab/metadata.py: the queue-driven worker that, for    *)
(* every message of a batch, probes the blob store for an existing         *)
(* metadata document, fetches the source object, extracts image metadata   *)
(* and writes the JSON document.                                           *)
(*                                                                         *)
(* Strings that the code takes apart or builds (keys, paths, tag names)    *)
(* are sequences of one-character strings.  Python values that may be of   *)
(* several types are records tagged by their type in field t.              *)
(***************************************************************************)
EXTENDS Integers, Sequences, FiniteSets, TLC

(***************************************************************************)
(* Bounds of the model.                                                    *)
(***************************************************************************)
MaxBatch == 3       \* longest batch (event["Records"]) delivered to one worker
MaxBatchPar == 1    \* longest batch delivered to each of the parallel workers
MaxFaults == 2      \* store calls that fail transiently, in one behaviour
MaxClock == 1       \* last value of the wall clock
MaxInvocations == 2 \* invocations of lambda_handler
MaxFaultsPar == 0   \* the same two bounds
MaxInvocationsPar == 2  \* when two workers run in parallel
MaxBatchMsg == 2    \* longest batch of the message variants
MaxBatchAgain == 2  \* longest batch when returned batches are delivered again
MaxBatchLive == 2   \* longest batch when every aborted batch is redelivered
MaxFaultsLive == 2  \* transient store failures while it is
MaxSeqLen == 2      \* longest sequence of leaves given to convert_value

(***************************************************************************)
(* Python values.                                                          *)
(***************************************************************************)
None == [t |-> "None"]
PyStr(s) == [t |-> "str", v |-> s]
PyInt(n) == [t |-> "int", v |-> n]
PyFloat(n, d) == [t |-> "float", n |-> n, d |-> d]
PyBytes(b) == [t |-> "bytes", v |-> b]
PyDict(f) == [t |-> "dict", v |-> f]
PyList(s) == [t |-> "list", v |-> s]
PyTuple(s) == [t |-> "tuple", v |-> s]
IFDRational(n, d) == [t |-> "IFDRational", n |-> n, d |-> d]
PyObject == [t |-> "object"]
PyBool(b) == [t |-> "bool", v |-> b]

\* the empty mapping {}
EmptyDict == [k \in {} |-> None]

(***************************************************************************)
(* Path(key).name: the last component of the key, where components are     *)
(* separated by "/" and empty and "." components are dropped; "" when no   *)
(* component is left.                                                      *)
(***************************************************************************)
RECURSIVE SplitSlash(_)
SplitSlash(s) ==
    IF s = <<>> THEN << <<>> >>
    ELSE LET rest == SplitSlash(Tail(s)) IN
         IF Head(s) = "/" THEN << <<>> >> \o rest
         ELSE << <<Head(s)>> \o Head(rest) >> \o Tail(rest)

PathParts(key) ==
    SelectSeq(SplitSlash(key), LAMBDA p : p # <<>> /\ p # <<".">>)

\* a mutant: the text after the last "/" (key.split("/")[-1])
PathNameRaw(key) ==
    LET parts == SplitSlash(key) IN parts[Len(parts)]

PathName(key) ==
    LET parts == PathParts(key) IN
    IF parts = <<>> THEN <<>> ELSE parts[Len(parts)]

OUTPUT_PREFIX == <<"m", "e", "t", "a", "d", "a", "t", "a">>

\* f"{OUTPUT_PREFIX}/{filename}.json"
MetadataKey(filename) ==
    OUTPUT_PREFIX \o <<"/">> \o filename \o <<".", "j", "s", "o", "n">>

(***************************************************************************)
(* extract_exif and its convert_value.                                     *)
(***************************************************************************)
\* bytes.decode("utf-8", errors="ignore") on byte strings whose bytes are
\* ASCII (below 128) or bytes that start no valid sequence (dropped)
ByteChar(b) == IF b = 65 THEN "A" ELSE IF b = 66 THEN "B" ELSE "?"

RECURSIVE DecodeIgnore(_)
DecodeIgnore(b) ==
    IF b = <<>> THEN <<>>
    ELSE IF Head(b) < 128 THEN <<ByteChar(Head(b))>> \o DecodeIgnore(Tail(b))
    ELSE DecodeIgnore(Tail(b))

\* a mutant: the keys of a mapping are written as strings
KeyAsStr(k) == IF k.t = "int" THEN PyStr(<<"k">>) ELSE k

RECURSIVE convert_value_str_keys(_)
convert_value_str_keys(val) ==
    CASE val.t = "IFDRational" -> PyFloat(val.n, val.d)
      [] val.t = "bytes" -> PyStr(DecodeIgnore(val.v))
      [] val.t = "dict" ->
            PyDict([sk \in {KeyAsStr(k) : k \in DOMAIN val.v} |->
                     convert_value_str_keys(
                        val.v[CHOOSE k \in DOMAIN val.v : KeyAsStr(k) = sk])])
      [] val.t \in {"list", "tuple"} ->
            PyList([j \in 1..Len(val.v) |-> convert_value_str_keys(val.v[j])])
      [] OTHER -> val

\* a mutant: isinstance(val, list) in place of isinstance(val, (list, tuple))
RECURSIVE convert_value_lists_only(_)
convert_value_lists_only(val) ==
    CASE val.t = "IFDRational" -> PyFloat(val.n, val.d)
      [] val.t = "bytes" -> PyStr(DecodeIgnore(val.v))
      [] val.t = "dict" ->
            PyDict([k \in DOMAIN val.v |-> convert_value_lists_only(val.v[k])])
      [] val.t = "list" ->
            PyList([j \in 1..Len(val.v) |-> convert_value_lists_only(val.v[j])])
      [] OTHER -> val

RECURSIVE convert_value(_)
convert_value(val) ==
    CASE val.t = "IFDRational" -> PyFloat(val.n, val.d)
      [] val.t = "bytes" -> PyStr(DecodeIgnore(val.v))
      [] val.t = "dict" ->
            PyDict([k \in DOMAIN val.v |-> convert_value(val.v[k])])
      [] val.t \in {"list", "tuple"} ->
            PyList([j \in 1..Len(val.v) |-> convert_value(val.v[j])])
      [] OTHER -> val

\* ExifTags.TAGS: the names of the known tag identifiers
S_Make == <<"M", "a", "k", "e">>
S_ExposureTime == <<"E", "x", "p", "o", "s", "u", "r", "e", "T", "i", "m", "e">>
S_GPSInfo == <<"G", "P", "S", "I", "n", "f", "o">>
TAGS == (271 :> S_Make) @@ (33434 :> S_ExposureTime) @@ (34853 :> S_GPSInfo)

\* ExifTags.TAGS.get(tag_id, tag_id)
TagName(tag_id) ==
    IF tag_id \in DOMAIN TAGS THEN PyStr(TAGS[tag_id]) ELSE PyInt(tag_id)

\* image._getexif() is [kind |-> "raise"], [kind |-> "none"] or
\* [kind |-> "tags", tags |-> a mapping of tag identifiers to values].
\* The result is None or the cleaned mapping.
extract_exif(image) ==
    LET exif_raw == image.exif IN
    IF exif_raw.kind = "raise" THEN None
    ELSE IF exif_raw.kind = "none" \/ DOMAIN exif_raw.tags = {} THEN None
    ELSE PyDict([name \in {TagName(id) : id \in DOMAIN exif_raw.tags} |->
                  convert_value(exif_raw.tags[
                     CHOOSE id \in DOMAIN exif_raw.tags : TagName(id) = name])])

\* a mutant: extract_exif(image) without the "or {}"
ExifNoDefault(image) == extract_exif(image)

\* extract_exif(image) or {}
ExifOrEmpty(image) ==
    LET e == extract_exif(image) IN
    IF e = None \/ (e.t = "dict" /\ DOMAIN e.v = {}) THEN PyDict(EmptyDict) ELSE e


(***************************************************************************)
(* json.dumps(metadata, indent=2): raises on a value of a type JSON does   *)
(* not know; writes the keys of a mapping as strings.                      *)
(***************************************************************************)
RECURSIVE Serializable(_)
Serializable(val) ==
    CASE val.t = "dict" -> \A k \in DOMAIN val.v : Serializable(val.v[k])
      [] val.t \in {"list", "tuple"} ->
            \A j \in 1..Len(val.v) : Serializable(val.v[j])
      [] val.t \in {"None", "str", "int", "float", "bool"} -> TRUE
      [] OTHER -> FALSE

Digit(n) == <<"0", "1", "2", "3", "4", "5", "6", "7", "8", "9">>[n + 1]

RECURSIVE DecStr(_)
DecStr(n) == IF n < 10 THEN <<Digit(n)>> ELSE DecStr(n \div 10) \o <<Digit(n % 10)>>

JsonKey(k) == IF k.t = "int" THEN PyStr(DecStr(k.v)) ELSE k

RECURSIVE JsonValue(_)
JsonValue(val) ==
    CASE val.t = "dict" ->
            LET keys == DOMAIN val.v IN
            PyDict([jk \in {JsonKey(k) : k \in keys} |->
                     JsonValue(val.v[CHOOSE k \in keys : JsonKey(k) = jk])])
      [] val.t \in {"list", "tuple"} ->
            PyList([j \in 1..Len(val.v) |-> JsonValue(val.v[j])])
      [] OTHER -> val

\* the result of json.dumps: the text, or the exception
json_dumps(metadata) ==
    IF Serializable(metadata.exif)
    THEN [raised |-> FALSE,
          text |-> [metadata EXCEPT !.exif = JsonValue(metadata.exif)]]
    ELSE [raised |-> TRUE]

(***************************************************************************)
(* The blob store and what is in it before the worker runs.                *)
(***************************************************************************)
Workers == {1, 2}

KeyAX == <<"a", "/", "x">>
KeyBX == <<"b", "/", "x">>
KeyY == <<"y", "/">>
SourceKeys == {KeyAX, KeyBX, KeyY}
Buckets == {"b", "c"}
StorePaths ==
    Buckets \X (SourceKeys \cup {MetadataKey(PathName(k)) : k \in SourceKeys})

Absent == [absent |-> TRUE]

ExifTagsOK ==
    (271 :> PyBytes(<<65, 255, 66>>)) @@ (33434 :> IFDRational(1, 2))
    @@ (34853 :> PyDict((PyInt(1) :> PyTuple(<<IFDRational(3, 1), PyInt(7)>>))))
    @@ (59999 :> PyStr(<<"A">>))
ExifTagsBad == (271 :> PyStr(<<"B">>)) @@ (59999 :> PyObject)

Image(format, width, height, exif) ==
    [img |-> TRUE, format |-> format, width |-> width, height |-> height,
     exif |-> exif]
ImgExif == Image("JPEG", 100, 200, [kind |-> "tags", tags |-> ExifTagsOK])
ImgPng == Image("PNG", 4, 3, [kind |-> "raise"])
ImgNoExif == Image("JPEG", 100, 200, [kind |-> "none"])
ImgBadExif == Image("JPEG", 2, 2, [kind |-> "tags", tags |-> ExifTagsBad])
NotAnImage == [img |-> FALSE]

SourceObject(body, len) == [Body |-> body, ContentLength |-> len]

EmptyStore == [p \in StorePaths |-> Absent]
World1 ==
    [EmptyStore EXCEPT ![<<"b", KeyAX>>] = SourceObject(ImgExif, 7),
                       ![<<"b", KeyBX>>] = SourceObject(ImgPng, 5),
                       ![<<"c", KeyY>>] = SourceObject(NotAnImage, 3)]
World2 ==
    [EmptyStore EXCEPT ![<<"b", KeyAX>>] = SourceObject(ImgNoExif, 6),
                       ![<<"b", KeyBX>>] = SourceObject(ImgBadExif, 4)]
World3 == [EmptyStore EXCEPT ![<<"c", KeyY>>] = SourceObject(ImgExif, 9)]
Worlds == {World1, World2, World3}

(***************************************************************************)
(* Messages: record["body"] is text that is JSON or not; the JSON object   *)
(* is the mapping of its fields.                                           *)
(***************************************************************************)
NotJson == [json |-> FALSE]
JsonBody(obj) == [json |-> TRUE, obj |-> obj]
MsgNoKey == JsonBody([bucket |-> "b"])
MsgAX == JsonBody([bucket |-> "b", key |-> KeyAX, etag |-> <<"e", "1">>])
MsgBX == JsonBody([bucket |-> "b", key |-> KeyBX])
MsgY == JsonBody([bucket |-> "c", key |-> KeyY, etag |-> <<"e", "2">>])
Bodies == {NotJson, MsgNoKey, MsgAX, MsgBX, MsgY}

\* message variants: a body without bucket, the key a/x with another etag
MsgNoBucket == JsonBody([key |-> KeyAX, etag |-> <<"e", "1">>])
MsgAX2 == JsonBody([bucket |-> "b", key |-> KeyAX, etag |-> <<"e", "3">>])
BodiesMsg == {NotJson, MsgNoKey, MsgNoBucket, MsgAX, MsgAX2, MsgBX}

\* the parallel workers get the messages that share a filename
BodiesPar == {NotJson, MsgAX, MsgBX}

Batches(bodies, n) == UNION {[1..m -> bodies] : m \in 0..n}
Events == Batches(Bodies, MaxBatch)
EventsPar == Batches(BodiesPar, MaxBatchPar)
EventsAgain == Batches(Bodies, MaxBatchAgain)
EventsLive == Batches(Bodies, MaxBatchLive)
EventsMsg == Batches(BodiesMsg, MaxBatchMsg)


(***************************************************************************)
(* State.                                                                  *)
(***************************************************************************)
VARIABLES
    store,        \* the blob store: path -> object or Absent
    now,          \* the wall clock read by datetime.utcnow()
    faults,       \* transient store failures so far
    pc,           \* per worker: where lambda_handler stands
    event,        \* per worker: the batch being handled (the record bodies)
    i,            \* per worker: index of the record being handled
    local,        \* per worker: bucket, key, etag, filename, metadata_key, body
    result,       \* per worker: what the last invocation returned or raised
    calls,        \* per worker: the store calls of the current invocation
    invocations,  \* per worker: invocations started
    prev,         \* per worker: how the delivery before this one of the same batch ended
    putCalls,     \* per path: put_object calls issued
    writers,      \* per path: the workers whose put_object succeeded, in order
    value,        \* the argument of a call of convert_value
    converted     \* what that call returned, or Pending

shared == <<store, now, faults, putCalls, writers>>
private == <<pc, event, i, local, result, calls, invocations, prev>>
normalizer == <<value, converted>>
vars == <<store, now, faults, pc, event, i, local, result, calls, invocations,
          prev, putCalls, writers, value, converted>>

\* invocations started, on all workers
Invocations == invocations[1] + invocations[2]

NoLocal == [none |-> TRUE]
NoResult == [none |-> TRUE]
Success == [statusCode |-> 200]
Raised == [exception |-> TRUE]

(***************************************************************************)
(* lambda_handler, lines 18-24: parse the body and derive the names.       *)
(***************************************************************************)
\* a mutant: message.get("bucket", "b") in place of message["bucket"]
ParseRecordDefaultBucket(body) ==
    IF ~body.json THEN [raised |-> TRUE]
    ELSE LET message == body.obj IN
         IF "key" \notin DOMAIN message THEN [raised |-> TRUE]
         ELSE LET filename == PathName(message.key) IN
              [raised |-> FALSE,
               bucket |-> IF "bucket" \in DOMAIN message
                          THEN message.bucket ELSE "b",
               key |-> message.key,
               etag |-> IF "etag" \in DOMAIN message
                        THEN PyStr(message.etag) ELSE None,
               filename |-> filename,
               metadata_key |-> MetadataKey(filename)]

ParseRecord(body) ==
    IF ~body.json THEN [raised |-> TRUE]
    ELSE LET message == body.obj IN
         IF "bucket" \notin DOMAIN message \/ "key" \notin DOMAIN message
         THEN [raised |-> TRUE]
         ELSE LET filename == PathName(message.key) IN
              [raised |-> FALSE,
               bucket |-> message.bucket,
               key |-> message.key,
               etag |-> IF "etag" \in DOMAIN message
                        THEN PyStr(message.etag) ELSE None,
               filename |-> filename,
               metadata_key |-> MetadataKey(filename)]

\* a mutant: no existence probe, the record goes straight to the fetch
EnterRecordNoProbe(ev, n) ==
    IF n > Len(ev) THEN [pc |-> "returned", local |-> NoLocal, result |-> Success]
    ELSE LET p == ParseRecord(ev[n]) IN
         IF p.raised THEN [pc |-> "raised", local |-> NoLocal, result |-> Raised]
         ELSE [pc |-> "get", local |-> p, result |-> NoResult]

\* the top of the loop at record n: return after the last record, raise on
\* a malformed body, otherwise stand before the existence probe
EnterRecord(ev, n) ==
    IF n > Len(ev) THEN [pc |-> "returned", local |-> NoLocal, result |-> Success]
    ELSE LET p == ParseRecord(ev[n]) IN
         IF p.raised THEN [pc |-> "raised", local |-> NoLocal, result |-> Raised]
         ELSE [pc |-> "head", local |-> p, result |-> NoResult]

\* continue with record n of the batch
Goto(w, n) ==
    LET e == EnterRecord(event[w], n) IN
    /\ pc' = [pc EXCEPT ![w] = e.pc]
    /\ local' = [local EXCEPT ![w] = e.local]
    /\ result' = [result EXCEPT ![w] = e.result]
    /\ i' = [i EXCEPT ![w] = n]

\* a mutant: the except clause logs and goes on to the next record
AbortContinue(w) == Goto(w, i[w] + 1)

\* a mutant: the except clause swallows the exception and the handler
\* returns the success status
AbortSwallow(w) ==
    /\ pc' = [pc EXCEPT ![w] = "returned"]
    /\ local' = [local EXCEPT ![w] = NoLocal]
    /\ result' = [result EXCEPT ![w] = Success]
    /\ i' = i

\* lines 69-72: the except clause re-raises
Abort(w) ==
    /\ pc' = [pc EXCEPT ![w] = "raised"]
    /\ local' = [local EXCEPT ![w] = NoLocal]
    /\ result' = [result EXCEPT ![w] = Raised]
    /\ i' = i

Call(op, n, bucket, key, res) ==
    [op |-> op, i |-> n, Bucket |-> bucket, Key |-> key, res |-> res]

Log(w, op, key, res) ==
    calls' = [calls EXCEPT ![w] =
                Append(@, Call(op, i[w], local[w].bucket, key, res))]

\* no earlier delivery of the batch; else how the earlier delivery ended: its
\* outcome, the index it stopped at and the store it left
NoPrev == [t |-> "none"]
Finished(w) == [t |-> "run", result |-> result[w], i |-> i[w], store |-> store]

Pending == [t |-> "pending"]

Init ==
    /\ value = None
    /\ converted = Pending
    /\ store \in Worlds
    /\ now = 0
    /\ faults = 0
    /\ pc = [w \in Workers |-> "idle"]
    /\ event = [w \in Workers |-> <<>>]
    /\ i = [w \in Workers |-> 0]
    /\ local = [w \in Workers |-> NoLocal]
    /\ result = [w \in Workers |-> NoResult]
    /\ calls = [w \in Workers |-> <<>>]
    /\ invocations = [w \in Workers |-> 0]
    /\ prev = [w \in Workers |-> NoPrev]
    /\ putCalls = [p \in StorePaths |-> 0]
    /\ writers = [p \in StorePaths |-> <<>>]

\* the clock advances
Tick ==
    /\ now < MaxClock
    /\ now' = now + 1
    /\ UNCHANGED <<store, faults, putCalls, writers>>
    /\ UNCHANGED private
    /\ UNCHANGED normalizer

(***************************************************************************)
(* The runtime invokes lambda_handler(event, context) on a worker that is  *)
(* not running: a new batch, or again the batch of an invocation that      *)
(* raised.                                                                 *)
(***************************************************************************)
Start(w, ev, maxInv, before) ==
    /\ Invocations < maxInv
    /\ invocations' = [invocations EXCEPT ![w] = @ + 1]
    /\ event' = [event EXCEPT ![w] = ev]
    /\ prev' = [prev EXCEPT ![w] = before]
    /\ calls' = [calls EXCEPT ![w] = <<>>]
    /\ LET e == EnterRecord(ev, 1) IN
       /\ pc' = [pc EXCEPT ![w] = e.pc]
       /\ local' = [local EXCEPT ![w] = e.local]
       /\ result' = [result EXCEPT ![w] = e.result]
       /\ i' = [i EXCEPT ![w] = 1]
    /\ UNCHANGED shared
    /\ UNCHANGED normalizer

Invoke(w, evs, maxInv) ==
    /\ pc[w] = "idle"
    /\ \E ev \in evs : Start(w, ev, maxInv, NoPrev)

\* the runtime has taken the result of the invocation (the status, or the
\* exception without redelivering this batch): the worker waits for a batch
Complete(w) ==
    /\ pc[w] \in {"returned", "raised"}
    /\ pc' = [pc EXCEPT ![w] = "idle"]
    /\ event' = [event EXCEPT ![w] = <<>>]
    /\ i' = [i EXCEPT ![w] = 0]
    /\ result' = [result EXCEPT ![w] = NoResult]
    /\ calls' = [calls EXCEPT ![w] = <<>>]
    /\ prev' = [prev EXCEPT ![w] = NoPrev]
    /\ UNCHANGED <<local, invocations>>
    /\ UNCHANGED shared
    /\ UNCHANGED normalizer

\* the runtime delivers the batch of an invocation that raised again
Retry(w, maxInv) ==
    /\ pc[w] = "raised"
    /\ Start(w, event[w], maxInv, NoPrev)

\* the same, keeping how the earlier delivery ended
Redeliver(w, maxInv) ==
    /\ pc[w] = "raised"
    /\ Start(w, event[w], maxInv, Finished(w))

\* the queue delivers at least once: a batch whose invocation returned may be
\* delivered again
Duplicate(w, maxInv) ==
    /\ pc[w] = "returned"
    /\ Start(w, event[w], maxInv, Finished(w))


(***************************************************************************)
(* The store's answers.                                                    *)
(***************************************************************************)
Ok(obj) == [ok |-> TRUE, obj |-> obj]
ClientError(code) == [ok |-> FALSE, Code |-> code]

\* s3.head_object / s3.get_object: the object, or the not-found error
head_object(st, bucket, key) ==
    IF st[<<bucket, key>>] = Absent THEN ClientError("404") ELSE Ok(None)

get_object(st, bucket, key) ==
    IF st[<<bucket, key>>] = Absent THEN ClientError("NoSuchKey")
    ELSE Ok(st[<<bucket, key>>])

\* a mutant: the probe never reports an existing object
metadata_exists_never(resp) ==
    IF resp.ok \/ resp.Code = "404" THEN [raised |-> FALSE, ret |-> FALSE]
    ELSE [raised |-> TRUE]

\* a mutant: every failure of the probe reads as "does not exist"
metadata_exists_any_error(resp) ==
    IF resp.ok THEN [raised |-> FALSE, ret |-> TRUE]
    ELSE [raised |-> FALSE, ret |-> FALSE]

\* metadata_exists, lines 77-84, on the answer of head_object
metadata_exists(resp) ==
    IF resp.ok THEN [raised |-> FALSE, ret |-> TRUE]
    ELSE IF resp.Code = "404" THEN [raised |-> FALSE, ret |-> FALSE]
    ELSE [raised |-> TRUE]

\* Image.open(BytesIO(image_bytes))
ImageOpen(image_bytes) ==
    IF image_bytes.img THEN [raised |-> FALSE, image |-> image_bytes]
    ELSE [raised |-> TRUE]

\* lines 45-55: the metadata mapping
Metadata(l, image, file_size, utcnow) ==
    [source_bucket |-> l.bucket,
     source_key |-> l.key,
     etag |-> l.etag,
     format |-> image.format,
     width |-> image.width,
     height |-> image.height,
     file_size_bytes |-> file_size,
     exif |-> ExifOrEmpty(image),
     processed_at |-> utcnow]

\* a mutant: the document is written before it is complete
DocumentPartial(body) ==
    [Body |-> [source_bucket |-> body.source_bucket, source_key |-> body.source_key],
     ContentType |-> "application/json"]

\* what put_object stores
Document(body) == [Body |-> body, ContentType |-> "application/json"]

(***************************************************************************)
(* lambda_handler, one step per store call.                                *)
(***************************************************************************)
\* a mutant: a document made from another source key or another etag does
\* not count as existing
ProbeSameSource(w, maxFaults) ==
    /\ pc[w] = "head"
    /\ \E fault \in BOOLEAN :
         /\ fault => faults < maxFaults
         /\ faults' = IF fault THEN faults + 1 ELSE faults
         /\ LET l == local[w]
                resp == IF fault THEN ClientError("403")
                        ELSE head_object(store, l.bucket, l.metadata_key)
                found == metadata_exists(resp)
                stored == store[<<l.bucket, l.metadata_key>>]
                r == IF found.raised \/ ~found.ret THEN found
                     ELSE [raised |-> FALSE,
                           ret |-> /\ stored.Body.source_key = l.key
                                   /\ stored.Body.etag = l.etag]
            IN /\ Log(w, "head_object", l.metadata_key,
                      IF resp.ok THEN "ok" ELSE resp.Code)
               /\ IF r.raised THEN Abort(w)
                  ELSE IF r.ret THEN Goto(w, i[w] + 1)
                  ELSE /\ pc' = [pc EXCEPT ![w] = "get"]
                       /\ UNCHANGED <<local, result, i>>
    /\ UNCHANGED <<store, now, putCalls, writers, event, invocations, prev>>
    /\ UNCHANGED normalizer

\* lines 29-31: the existence probe
Probe(w, maxFaults) ==
    /\ pc[w] = "head"
    /\ \E fault \in BOOLEAN :
         /\ fault => faults < maxFaults
         /\ faults' = IF fault THEN faults + 1 ELSE faults
         /\ LET l == local[w]
                resp == IF fault THEN ClientError("403")
                        ELSE head_object(store, l.bucket, l.metadata_key)
                r == metadata_exists(resp)
            IN /\ Log(w, "head_object", l.metadata_key,
                      IF resp.ok THEN "ok" ELSE resp.Code)
               /\ IF r.raised THEN Abort(w)
                  ELSE IF r.ret THEN Goto(w, i[w] + 1)
                  ELSE /\ pc' = [pc EXCEPT ![w] = "get"]
                       /\ UNCHANGED <<local, result, i>>
    /\ UNCHANGED <<store, now, putCalls, writers, event, invocations, prev>>
    /\ UNCHANGED normalizer

\* lines 36-63: fetch, decode, extract, serialize
Fetch(w, maxFaults) ==
    /\ pc[w] = "get"
    /\ \E fault \in BOOLEAN :
         /\ fault => faults < maxFaults
         /\ faults' = IF fault THEN faults + 1 ELSE faults
         /\ LET l == local[w]
                resp == IF fault THEN ClientError("500")
                        ELSE get_object(store, l.bucket, l.key)
            IN /\ Log(w, "get_object", l.key, IF resp.ok THEN "ok" ELSE resp.Code)
               /\ IF ~resp.ok THEN Abort(w)
                  ELSE LET image_obj == resp.obj
                           opened == ImageOpen(image_obj.Body)
                       IN IF opened.raised THEN Abort(w)
                          ELSE LET metadata == Metadata(l, opened.image,
                                                  image_obj.ContentLength, now)
                                   dumped == json_dumps(metadata)
                               IN IF dumped.raised THEN Abort(w)
                                  ELSE /\ pc' = [pc EXCEPT ![w] = "put"]
                                       /\ local' = [local EXCEPT ![w] =
                                                      [Body |-> dumped.text] @@ @]
                                       /\ UNCHANGED <<result, i>>
    /\ UNCHANGED <<store, now, putCalls, writers, event, invocations, prev>>
    /\ UNCHANGED normalizer

\* a mutant: the document is put at the key of the source object
WriteInPlace(w, maxFaults) ==
    /\ pc[w] = "put"
    /\ LET l == local[w]
           path == <<l.bucket, l.key>>
       IN /\ putCalls' = [putCalls EXCEPT ![path] = @ + 1]
          /\ \E fault \in BOOLEAN :
               /\ fault => faults < maxFaults
               /\ faults' = IF fault THEN faults + 1 ELSE faults
               /\ Log(w, "put_object", l.key, IF fault THEN "500" ELSE "ok")
               /\ IF fault
                  THEN /\ Abort(w)
                       /\ UNCHANGED <<store, writers>>
                  ELSE /\ store' = [store EXCEPT ![path] = Document(l.Body)]
                       /\ writers' = [writers EXCEPT ![path] = Append(@, w)]
                       /\ Goto(w, i[w] + 1)
    /\ UNCHANGED <<now, event, invocations, prev>>
    /\ UNCHANGED normalizer

\* lines 60-67: the write
Write(w, maxFaults) ==
    /\ pc[w] = "put"
    /\ LET l == local[w]
           path == <<l.bucket, l.metadata_key>>
       IN /\ putCalls' = [putCalls EXCEPT ![path] = @ + 1]
          /\ \E fault \in BOOLEAN :
               /\ fault => faults < maxFaults
               /\ faults' = IF fault THEN faults + 1 ELSE faults
               /\ Log(w, "put_object", l.metadata_key, IF fault THEN "500" ELSE "ok")
               /\ IF fault
                  THEN /\ Abort(w)
                       /\ UNCHANGED <<store, writers>>
                  ELSE /\ store' = [store EXCEPT ![path] = Document(l.Body)]
                       /\ writers' = [writers EXCEPT ![path] = Append(@, w)]
                       /\ Goto(w, i[w] + 1)
    /\ UNCHANGED <<now, event, invocations, prev>>
    /\ UNCHANGED normalizer

Step(w, evs, maxInv, maxFaults) ==
    \/ Invoke(w, evs, maxInv)
    \/ Retry(w, maxInv)
    \/ Complete(w)
    \/ Probe(w, maxFaults)
    \/ Fetch(w, maxFaults)
    \/ Write(w, maxFaults)

\* one worker
Next == Tick \/ Step(1, Events, MaxInvocations, MaxFaults)
Spec == Init /\ [][Next]_vars

\* one worker, with deliveries repeated after a return as well
NextAgain ==
    \/ Tick
    \/ Invoke(1, EventsAgain, MaxInvocations)
    \/ Redeliver(1, MaxInvocations)
    \/ Duplicate(1, MaxInvocations)
    \/ Complete(1)
    \/ Probe(1, MaxFaults)
    \/ Fetch(1, MaxFaults)
    \/ Write(1, MaxFaults)
SpecAgain == Init /\ [][NextAgain]_vars

\* one worker and one batch; the runtime redelivers the batch after every
\* invocation that raised, as often as a store call has failed; the handler
\* runs on, and a raised batch is delivered again
MaxInvocationsLive == MaxFaultsLive + 1
NextLive ==
    \/ Invoke(1, EventsLive, MaxInvocationsLive)
    \/ Redeliver(1, MaxInvocationsLive)
    \/ Probe(1, MaxFaultsLive)
    \/ Fetch(1, MaxFaultsLive)
    \/ Write(1, MaxFaultsLive)
FairLive ==
    /\ WF_vars(Redeliver(1, MaxInvocationsLive))
    /\ WF_vars(Probe(1, MaxFaultsLive))
    /\ WF_vars(Fetch(1, MaxFaultsLive))
    /\ WF_vars(Write(1, MaxFaultsLive))
SpecLive == Init /\ [][NextLive]_vars /\ FairLive

\* one worker, the message variants
NextMsg == Tick \/ Step(1, EventsMsg, MaxInvocations, MaxFaults)
SpecMsg == Init /\ [][NextMsg]_vars

(***************************************************************************)
(* convert_value on its own: the arguments are leaves, containers of       *)
(* leaves, and containers nested three deep.                               *)
(***************************************************************************)
Leaves ==
    {IFDRational(1, 2), IFDRational(3, 1), PyBytes(<<65, 255, 66>>),
     PyBytes(<<255>>), PyInt(7), PyStr(<<"A">>), PyBool(TRUE), None, PyObject}

DictKeys == {PyInt(1), PyStr(<<"A">>)}

SeqsOf(S, n) == UNION {[1..m -> S] : m \in 0..n}
DictsOf(S) == UNION {[K -> S] : K \in SUBSET DictKeys}

Containers(S, n) ==
    {PyList(q) : q \in SeqsOf(S, n)} \cup {PyTuple(q) : q \in SeqsOf(S, n)}
    \cup {PyDict(f) : f \in DictsOf(S)}

Level1 == Containers(Leaves, MaxSeqLen)
Level2 ==
    {PyTuple(<<a, b>>) : a \in Level1, b \in {IFDRational(1, 2), PyInt(7)}}
    \cup {PyDict(PyInt(1) :> a) : a \in Level1}
Level3 ==
    {PyList(<<a>>) : a \in Level2} \cup {PyDict(PyStr(<<"A">>) :> a) : a \in Level2}
Values == Leaves \cup Level1 \cup Level2 \cup Level3

InitNorm ==
    /\ value \in Values
    /\ converted = Pending
    /\ store = World1
    /\ now = 0
    /\ faults = 0
    /\ pc = [w \in Workers |-> "idle"]
    /\ event = [w \in Workers |-> <<>>]
    /\ i = [w \in Workers |-> 0]
    /\ local = [w \in Workers |-> NoLocal]
    /\ result = [w \in Workers |-> NoResult]
    /\ calls = [w \in Workers |-> <<>>]
    /\ invocations = [w \in Workers |-> 0]
    /\ prev = [w \in Workers |-> NoPrev]
    /\ putCalls = [p \in StorePaths |-> 0]
    /\ writers = [p \in StorePaths |-> <<>>]

\* lines 97-110: one call of convert_value
Normalize ==
    /\ converted = Pending
    /\ converted' = convert_value(value)
    /\ UNCHANGED value
    /\ UNCHANGED shared
    /\ UNCHANGED private

NextNorm == Normalize
SpecNorm == InitNorm /\ [][NextNorm]_vars

\* independent workers on the same store
NextPar ==
    Tick \/ \E w \in Workers : Step(w, EventsPar, MaxInvocationsPar, MaxFaultsPar)
SpecPar == Init /\ [][NextPar]_vars


(***************************************************************************)
(* Reading the calls of an invocation.                                     *)
(***************************************************************************)
IsCall(c, op, res) == c.op = op /\ c.res = res

\* the call ended in an exception that leaves metadata_exists or lambda_handler
Failed(c) ==
    IF c.op = "head_object" THEN c.res \notin {"ok", "404"} ELSE c.res # "ok"

\* record n of the worker's batch is handled by the call
CallsOf(w, n) == {k \in DOMAIN calls[w] : calls[w][k].i = n}

Last(w) == calls[w][Len(calls[w])]

\* the bytes fetched by a successful get_object do not decode to an image,
\* or the resulting metadata does not serialize
Unusable(c) ==
    LET opened == ImageOpen(store[<<c.Bucket, c.Key>>].Body) IN
    opened.raised \/ ~Serializable(ExifOrEmpty(opened.image))

(***************************************************************************)
(* C1.  A message whose metadata_key exists when the existence probe runs  *)
(* (the probe succeeds) gets no get_object and no put_object call, does    *)
(* not make the invocation raise, and the loop goes on to the next record  *)
(* of the batch.                                                           *)
(***************************************************************************)
C1_IdempotencySkip ==
    \A w \in Workers : \A k \in DOMAIN calls[w] :
        LET c == calls[w][k] IN
        IsCall(c, "head_object", "ok") =>
            /\ CallsOf(w, c.i) = {k}
            /\ IF k < Len(calls[w])
               THEN /\ calls[w][k + 1].i = c.i + 1
                    /\ calls[w][k + 1].op = "head_object"
               ELSE /\ i[w] = c.i + 1
                    /\ pc[w] \in {"head", "returned", "raised"}
                    /\ pc[w] = "raised" =>
                          /\ i[w] <= Len(event[w])
                          /\ ParseRecord(event[w][i[w]]).raised

\* a skipped message is followed by the probe of the next message
C1_Witness ==
    \E k \in DOMAIN calls[1] :
        /\ IsCall(calls[1][k], "head_object", "ok")
        /\ k < Len(calls[1])
        /\ store[<<calls[1][k].Bucket, calls[1][k].Key>>] # Absent

(***************************************************************************)
(* C2.  An exception while handling record i of the batch ends the         *)
(* invocation with that exception: the failing call is the last store call *)
(* of the invocation, no call is made for a record after i, and no         *)
(* put_object succeeded for record i.  The failures are a malformed body,  *)
(* a failing probe (other than not-found), fetch or write, bytes that do   *)
(* not decode and metadata that does not serialize.                        *)
(***************************************************************************)
C2_WholeBatchAbort ==
    \A w \in Workers :
        /\ \A k \in DOMAIN calls[w] :
              LET c == calls[w][k] IN
              (Failed(c) \/ (IsCall(c, "get_object", "ok") /\ Unusable(c))) =>
                  /\ k = Len(calls[w])
                  /\ pc[w] = "raised"
                  /\ i[w] = c.i
        /\ (i[w] \in 1..Len(event[w]) /\ ParseRecord(event[w][i[w]]).raised) =>
              /\ pc[w] = "raised"
              /\ CallsOf(w, i[w]) = {}
        /\ pc[w] = "raised" =>
              /\ result[w] = Raised
              /\ i[w] \in 1..Len(event[w])
              /\ \A k \in DOMAIN calls[w] :
                    /\ calls[w][k].i <= i[w]
                    /\ ~(calls[w][k].i = i[w] /\ IsCall(calls[w][k], "put_object", "ok"))

\* a batch of 3 messages: the 1st is written, the fetch of the 2nd fails
C2_Witness ==
    /\ Len(event[1]) = 3
    /\ pc[1] = "raised"
    /\ i[1] = 2
    /\ calls[1] # <<>>
    /\ Last(1).op = "get_object" /\ Last(1).res # "ok" /\ Last(1).i = 2
    /\ \E k \in CallsOf(1, 1) : IsCall(calls[1][k], "put_object", "ok")
    /\ ~ParseRecord(event[1][3]).raised

Range(seq) == {seq[k] : k \in DOMAIN seq}

PassedGate(w, bucket, key) ==
    \E k \in DOMAIN calls[w] :
        /\ IsCall(calls[w][k], "head_object", "404")
        /\ calls[w][k].Bucket = bucket
        /\ calls[w][k].Key = key

C4_GateIsPerWorker ==
    /\ \A w \in Workers :
          pc[w] \in {"get", "put"} =>
              /\ PassedGate(w, local[w].bucket, local[w].metadata_key)
              /\ IsCall(calls[w][CHOOSE k \in CallsOf(w, i[w]) : TRUE],
                        "head_object", "404")
    /\ \A p \in StorePaths : Cardinality(Range(writers[p])) = Len(writers[p])

\* both probes answered not-found, then both workers put to the path
C4_BothWrite ==
    \E p \in StorePaths :
        /\ writers[p] \in {<<1, 2>>, <<2, 1>>}
        /\ \A w \in Workers :
              /\ PassedGate(w, p[1], p[2])
              /\ \E k \in DOMAIN calls[w] :
                    /\ IsCall(calls[w][k], "put_object", "ok")
                    /\ <<calls[w][k].Bucket, calls[w][k].Key>> = p

(***************************************************************************)
(* C5.  As stated: the content stored at a written path never changes.     *)
(* As amended: it is never changed by a worker that wrote it; it changes   *)
(* only by the put of another worker whose own probe of that path was      *)
(* answered not-found.                                                     *)
(***************************************************************************)
C5_Immutable ==
    [][\A p \in StorePaths : store[p] # Absent => store'[p] = store[p]]_vars

C5_ChangedOnlyByRacingWorker ==
    [][\A p \in StorePaths :
          (store[p] # Absent /\ store'[p] # store[p]) =>
              \E w \in Workers :
                  /\ pc[w] = "put"
                  /\ <<local[w].bucket, local[w].metadata_key>> = p
                  /\ PassedGate(w, p[1], p[2])
                  /\ w \notin Range(writers[p])
                  /\ writers'[p] = Append(writers[p], w)
                  /\ store'[p] = Document(local[w].Body)]_vars

\* the document written for a/x has been replaced by the one for b/x
C5_Witness ==
    \E p \in StorePaths : \E w1, w2 \in Workers :
        /\ writers[p] = <<w1, w2>>
        /\ event[w1] = <<MsgAX>>
        /\ event[w2] = <<MsgBX>>
        /\ store[p].Body.source_key = KeyBX

(***************************************************************************)
(* C6.  Whatever a worker wrote is a complete document of nine fields; a   *)
(* put_object call follows a successful fetch of bytes that decode; after  *)
(* a failed fetch or decode nothing is stored at the message's             *)
(* metadata_key.                                                           *)
(***************************************************************************)
NineFields ==
    {"source_bucket", "source_key", "etag", "format", "width", "height",
     "file_size_bytes", "exif", "processed_at"}

C6_NoPartialDocument ==
    /\ \A p \in StorePaths :
          writers[p] # <<>> =>
              /\ store[p] # Absent
              /\ DOMAIN store[p] = {"Body", "ContentType"}
              /\ DOMAIN store[p].Body = NineFields
    /\ \A w \in Workers : \A k \in DOMAIN calls[w] :
          calls[w][k].op = "put_object" =>
              /\ k > 1
              /\ IsCall(calls[w][k - 1], "get_object", "ok")
              /\ calls[w][k - 1].i = calls[w][k].i
              /\ ~Unusable(calls[w][k - 1])
    /\ \A w \in Workers :
          (pc[w] = "raised" /\ calls[w] # <<>> /\ Last(w).op = "get_object") =>
              LET m == ParseRecord(event[w][i[w]]) IN
              /\ Last(w).i = i[w]
              /\ store[<<m.bucket, m.metadata_key>>] = Absent

\* a document has been written and the bytes of a later message do not decode
C6_Witness ==
    /\ pc[1] = "raised"
    /\ calls[1] # <<>>
    /\ IsCall(Last(1), "get_object", "ok")
    /\ ImageOpen(store[<<Last(1).Bucket, Last(1).Key>>].Body).raised
    /\ \E p \in StorePaths : writers[p] # <<>>

(***************************************************************************)
(* C7.  The probe: success reads as "exists" (no fetch, no write for the   *)
(* message), not-found reads as "does not exist" (the fetch follows),      *)
(* every other failure raises: no fetch and no write for the message, and  *)
(* the batch is aborted.                                                   *)
(***************************************************************************)
C7_ProbeOutcomes ==
    \A w \in Workers : \A k \in DOMAIN calls[w] :
        LET c == calls[w][k]
            last == k = Len(calls[w])
        IN c.op = "head_object" =>
            /\ c.res = "ok" =>
                  /\ store[<<c.Bucket, c.Key>>] # Absent
                  /\ \A j \in CallsOf(w, c.i) : calls[w][j].op = "head_object"
                  /\ last => pc[w] \notin {"get", "put"}
            /\ c.res = "404" =>
                  IF last THEN pc[w] = "get" /\ i[w] = c.i
                  ELSE calls[w][k + 1].op = "get_object" /\ calls[w][k + 1].i = c.i
            /\ c.res \notin {"ok", "404"} =>
                  /\ last
                  /\ pc[w] = "raised"
                  /\ result[w] = Raised
                  /\ i[w] = c.i
                  /\ CallsOf(w, c.i) = {k}

\* a probe failed with another error than not-found, on an absent path
C7_Witness ==
    /\ calls[1] # <<>>
    /\ IsCall(Last(1), "head_object", "403")
    /\ store[<<Last(1).Bucket, Last(1).Key>>] = Absent
    /\ Last(1).i = 2


(***************************************************************************)
(* C8.  The store calls of an invocation are in batch order; the calls of  *)
(* one message are the probe, then the fetch, then the write; the first    *)
(* call of a message is its probe, a fetch directly follows a probe of the *)
(* same message answered not-found, a write directly follows the           *)
(* successful fetch of the same message; every record before the current   *)
(* one has been probed.                                                    *)
(***************************************************************************)
C8_Ordering ==
    \A w \in Workers :
        /\ \A k \in DOMAIN calls[w] :
              LET c == calls[w][k] IN
              /\ k > 1 => calls[w][k - 1].i <= c.i
              /\ c.i \in 1..Len(event[w])
              /\ c.op = "head_object" <=> (k = 1 \/ calls[w][k - 1].i < c.i)
              /\ c.op = "get_object" =>
                    /\ k > 1
                    /\ IsCall(calls[w][k - 1], "head_object", "404")
                    /\ calls[w][k - 1].i = c.i
              /\ c.op = "put_object" =>
                    /\ k > 1
                    /\ IsCall(calls[w][k - 1], "get_object", "ok")
                    /\ calls[w][k - 1].i = c.i
        /\ \A n \in 1..Len(event[w]) :
              n < i[w] => \E k \in CallsOf(w, n) : calls[w][k].op = "head_object"
        /\ pc[w] = "head" => CallsOf(w, i[w]) = {}
        /\ pc[w] = "get" =>
              /\ calls[w] # <<>>
              /\ IsCall(Last(w), "head_object", "404") /\ Last(w).i = i[w]
        /\ pc[w] = "put" =>
              /\ calls[w] # <<>>
              /\ IsCall(Last(w), "get_object", "ok") /\ Last(w).i = i[w]

\* the first message was probed, fetched and written, the second is probed
C8_Witness ==
    /\ Len(calls[1]) >= 4
    /\ calls[1][3].op = "put_object" /\ calls[1][3].i = 1
    /\ calls[1][4].op = "head_object" /\ calls[1][4].i = 2

(***************************************************************************)
(* C9.  An invocation returns {"statusCode": 200} exactly when every       *)
(* message of the batch was skipped by the gate or had its document        *)
(* written; otherwise it ends with the exception and no value.  An empty   *)
(* batch returns the status without a store call.                          *)
(***************************************************************************)
Handled(w, n) ==
    \E k \in CallsOf(w, n) :
        \/ IsCall(calls[w][k], "head_object", "ok")
        \/ IsCall(calls[w][k], "put_object", "ok")

C9_ProcessResult ==
    \A w \in Workers :
        /\ result[w] = Success <=> pc[w] = "returned"
        /\ result[w] = Raised <=> pc[w] = "raised"
        /\ pc[w] # "idle" =>
              (pc[w] = "returned" <=> \A n \in 1..Len(event[w]) : Handled(w, n))
        /\ pc[w] = "returned" => \A k \in DOMAIN calls[w] : ~Failed(calls[w][k])
        /\ (pc[w] # "idle" /\ event[w] = <<>>) =>
              pc[w] = "returned" /\ calls[w] = <<>>

\* success for a batch with a written and a skipped message
C9_Witness ==
    /\ pc[1] = "returned"
    /\ result[1] = Success
    /\ \E n, m \in 1..Len(event[1]) :
          /\ \E k \in CallsOf(1, n) : IsCall(calls[1][k], "put_object", "ok")
          /\ \E k \in CallsOf(1, m) : IsCall(calls[1][k], "head_object", "ok")

(***************************************************************************)
(* C10.  When reading the tag data raises or there is none, the message is *)
(* not aborted: the write follows the fetch, the document has exif = {},   *)
(* and after the write the loop goes on to the next record.  The exif of   *)
(* every written document is a mapping.                                    *)
(***************************************************************************)
NoTags(image) ==
    \/ image.exif.kind \in {"raise", "none"}
    \/ (image.exif.kind = "tags" /\ DOMAIN image.exif.tags = {})

\* the source object of the call's message is an image without readable tags
SourceNoTags(w, c) ==
    LET m == ParseRecord(event[w][c.i])
        obj == store[<<m.bucket, m.key>>]
    IN obj # Absent /\ obj.Body.img /\ NoTags(obj.Body)

C10_TagFailureRecovered ==
    /\ \A p \in StorePaths :
          writers[p] # <<>> => store[p].Body.exif.t = "dict"
    /\ \A w \in Workers : \A k \in DOMAIN calls[w] :
          LET c == calls[w][k] IN
          /\ (IsCall(c, "get_object", "ok") /\ SourceNoTags(w, c)) =>
                IF k = Len(calls[w])
                THEN /\ pc[w] = "put"
                     /\ local[w].Body.exif = PyDict(EmptyDict)
                ELSE calls[w][k + 1].op = "put_object" /\ calls[w][k + 1].i = c.i
          /\ (IsCall(c, "put_object", "ok") /\ SourceNoTags(w, c)) =>
                /\ store[<<c.Bucket, c.Key>>].Body.exif = PyDict(EmptyDict)
                /\ IF k = Len(calls[w])
                   THEN i[w] = c.i + 1 /\ pc[w] # "put"
                   ELSE calls[w][k + 1].i = c.i + 1

\* a document without tags was written and the next message is being handled
C10_Witness ==
    \E k \in DOMAIN calls[1] :
        /\ IsCall(calls[1][k], "put_object", "ok")
        /\ SourceNoTags(1, calls[1][k])
        /\ ParseRecord(event[1][calls[1][k].i]).key = KeyBX
        /\ k < Len(calls[1])


(***************************************************************************)
(* C11.  Every put_object call goes to the bucket of its message, at the   *)
(* key <OUTPUT_PREFIX>/<last path segment of the message's key>.json; the  *)
(* written document carries the message's bucket, its full key, the        *)
(* ContentLength of the fetched object, and the message's etag, or null    *)
(* when the message has none.  The last path segment is the last run of    *)
(* characters between "/" that is neither empty nor ".".                   *)
(***************************************************************************)
\* only "/" and whole "." segments follow position b of the key
OnlySeparatorsAfter(key, b) ==
    \A j \in (b + 1)..Len(key) :
        \/ key[j] = "/"
        \/ /\ key[j] = "."
           /\ key[j - 1] = "/"
           /\ (j = Len(key) \/ key[j + 1] = "/")

IsLastSegment(key, s) ==
    \E a \in 0..Len(key) : \E b \in a..Len(key) :
        /\ s = SubSeq(key, a + 1, b)
        /\ s # <<>> /\ s # <<".">>
        /\ \A j \in DOMAIN s : s[j] # "/"
        /\ (a = 0 \/ key[a] = "/")
        /\ (b = Len(key) \/ key[b + 1] = "/")
        /\ OnlySeparatorsAfter(key, b)

DotJson == <<".", "j", "s", "o", "n">>

C11_TargetAndAddressing ==
    \A w \in Workers : \A k \in DOMAIN calls[w] :
        LET c == calls[w][k]
            message == event[w][c.i].obj
        IN c.op = "put_object" =>
            /\ c.Bucket = message.bucket
            /\ \E s \in {SubSeq(message.key, a, b) :
                           a, b \in 1..Len(message.key)} :
                  /\ IsLastSegment(message.key, s)
                  /\ c.Key = OUTPUT_PREFIX \o <<"/">> \o s \o DotJson
            /\ c.res = "ok" =>
                  LET doc == store[<<c.Bucket, c.Key>>].Body IN
                  /\ doc.source_bucket = message.bucket
                  /\ doc.source_key = message.key
                  /\ doc.file_size_bytes =
                        store[<<message.bucket, message.key>>].ContentLength
                  /\ doc.etag = IF "etag" \in DOMAIN message
                                THEN PyStr(message.etag) ELSE None

\* a document was written for a key that ends in "/", in the message's
\* bucket
C11_Witness ==
    /\ event[1] = <<MsgY>>
    /\ pc[1] = "returned"
    /\ store[<<"b", MetadataKey(<<"y">>)>>] = Absent
    /\ store[<<"c", MetadataKey(<<"y">>)>>] # Absent
    /\ store[<<"c", MetadataKey(<<"y">>)>>].Body.source_key = KeyY


(***************************************************************************)
(* C12.  A record whose body is not JSON or has no bucket or no key field  *)
(* raises before any store call is made for it: the invocation ends with   *)
(* the exception at that record, and no record after it gets a store call. *)
(***************************************************************************)
Malformed(body) ==
    \/ ~body.json
    \/ "bucket" \notin DOMAIN body.obj
    \/ "key" \notin DOMAIN body.obj

C12_MalformedMessage ==
    \A w \in Workers : \A n \in 1..Len(event[w]) :
        Malformed(event[w][n]) =>
            /\ \A m \in n..Len(event[w]) : CallsOf(w, m) = {}
            /\ i[w] <= n
            /\ i[w] = n => (pc[w] = "raised" /\ result[w] = Raised)

\* a body without bucket before a well-formed message: no store call
C12_Witness ==
    /\ event[1] = <<MsgNoBucket, MsgAX>>
    /\ pc[1] = "raised"
    /\ calls[1] = <<>>


(***************************************************************************)
(* C13.  convert_value keeps the shape of its argument: a mapping gives a  *)
(* mapping with the same keys, a list or tuple gives a sequence of the     *)
(* same length whose j-th element comes from the j-th element, at every    *)
(* depth; a leaf that is neither a rational nor a byte string is returned  *)
(* unchanged, and a rational or byte string gives a leaf.                  *)
(***************************************************************************)
IsSeq(v) == v.t \in {"list", "tuple"}
IsLeaf(v) == v.t \notin {"dict", "list", "tuple"}

RECURSIVE SameShape(_, _)
SameShape(in, out) ==
    CASE in.t = "dict" ->
            /\ out.t = "dict"
            /\ DOMAIN out.v = DOMAIN in.v
            /\ \A k \in DOMAIN in.v : SameShape(in.v[k], out.v[k])
      [] IsSeq(in) ->
            /\ IsSeq(out)
            /\ Len(out.v) = Len(in.v)
            /\ \A j \in 1..Len(in.v) : SameShape(in.v[j], out.v[j])
      [] in.t \in {"IFDRational", "bytes"} -> IsLeaf(out)
      [] OTHER -> out = in

C13_ShapePreserved == converted # Pending => SameShape(value, converted)

\* a mapping inside a tuple inside a mapping has been converted
C13_Witness ==
    /\ converted # Pending
    /\ value = PyDict(PyStr(<<"A">>) :>
                 PyTuple(<<PyDict((PyInt(1) :> IFDRational(1, 2))
                                  @@ (PyStr(<<"A">>) :> PyObject)),
                           PyInt(7)>>))

(***************************************************************************)
(* C14.  For an argument whose leaves are rationals, byte strings,         *)
(* numbers, strings, booleans or null, the result holds no rational and no *)
(* byte string at any depth: each rational has become the float of its     *)
(* value and each byte string a string.                                    *)
(***************************************************************************)
JsonLeafTypes == {"IFDRational", "bytes", "int", "float", "str", "bool", "None"}

RECURSIVE LeavesIn(_)
LeavesIn(v) ==
    CASE v.t = "dict" -> UNION {LeavesIn(v.v[k]) : k \in DOMAIN v.v}
      [] IsSeq(v) -> UNION {LeavesIn(v.v[j]) : j \in 1..Len(v.v)}
      [] OTHER -> {v}

\* the result of each leaf: a rational is a float of the same value, a byte
\* string is a string, anything else is itself
RECURSIVE LeavesConverted(_, _)
LeavesConverted(in, out) ==
    CASE in.t = "dict" ->
            /\ out.t = "dict" /\ DOMAIN out.v = DOMAIN in.v
            /\ \A k \in DOMAIN in.v : LeavesConverted(in.v[k], out.v[k])
      [] IsSeq(in) ->
            /\ IsSeq(out) /\ Len(out.v) = Len(in.v)
            /\ \A j \in 1..Len(in.v) : LeavesConverted(in.v[j], out.v[j])
      [] in.t = "IFDRational" -> out = PyFloat(in.n, in.d)
      [] in.t = "bytes" -> out.t = "str"
      [] OTHER -> out = in

C14_JsonRepresentable ==
    (converted # Pending /\ \A l \in LeavesIn(value) : l.t \in JsonLeafTypes) =>
        /\ \A l \in LeavesIn(converted) :
              l.t \in JsonLeafTypes \ {"IFDRational", "bytes"}
        /\ LeavesConverted(value, converted)
        /\ Serializable(converted)

\* a rational and a byte string inside a tuple inside a mapping
C14_Witness ==
    /\ converted # Pending
    /\ value = PyDict(PyStr(<<"A">>) :>
                 PyTuple(<<PyTuple(<<IFDRational(3, 1), PyBytes(<<255>>)>>),
                           IFDRational(1, 2)>>))
    /\ converted = PyDict(PyStr(<<"A">>) :>
                     PyList(<<PyList(<<PyFloat(3, 1), PyStr(<<>>)>>),
                              PyFloat(1, 2)>>))

(***************************************************************************)
(* C15: redelivery is idempotent on the store.                             *)
(***************************************************************************)
\* the delivery being handled by w repeats a delivery of the same batch
Again(w) == prev[w] # NoPrev

\* C15 as stated, its general sentence: running process a second time on the
\* same batch leaves the store as the first run left it.  It fails when the
\* first run was aborted by a transient failure: the second run then writes
\* the documents the first did not reach.
C15_TwiceAsOnce ==
    \A w \in Workers :
        (Again(w) /\ pc[w] \in {"returned", "raised"}) =>
            store = prev[w].store

\* C15 amended: in a delivery that repeats an earlier delivery of the batch
\* to the same single worker, (a) every message before the index the earlier
\* delivery stopped at is answered by the probe alone, which never reports
\* 404: no fetch and no write is issued for it, and once passed it was
\* skipped on one successful probe; (b) every object the earlier delivery
\* left in the store is unchanged, so the repeat can only add documents;
\* (c) after an earlier delivery that returned success the repeat issues no
\* fetch and no write and leaves the store as it was.
C15_RedeliveryIdempotent ==
    \A w \in Workers :
        Again(w) =>
            /\ \A n \in 1..(prev[w].i - 1) :
                  /\ \A k \in CallsOf(w, n) :
                        /\ calls[w][k].op = "head_object"
                        /\ calls[w][k].res # "404"
                  /\ n < i[w] =>
                        \E k \in 1..Len(calls[w]) :
                            /\ CallsOf(w, n) = {k}
                            /\ IsCall(calls[w][k], "head_object", "ok")
            /\ \A p \in StorePaths :
                  prev[w].store[p] # Absent => store[p] = prev[w].store[p]
            /\ prev[w].result = Success =>
                  /\ store = prev[w].store
                  /\ \A k \in 1..Len(calls[w]) : calls[w][k].op = "head_object"

\* the first delivery wrote message 1 and was aborted at message 2 by a
\* transient failure of the probe; the second delivery skipped both and
\* returned
C15_Witness ==
    /\ event[1] = <<MsgAX, MsgBX>>
    /\ prev[1] # NoPrev
    /\ prev[1].result = Raised
    /\ prev[1].i = 2
    /\ prev[1].store[<<"b", MetadataKey(<<"x">>)>>] # Absent
    /\ pc[1] = "returned"
    /\ Len(calls[1]) = 2
    /\ IsCall(calls[1][1], "head_object", "ok")
    /\ IsCall(calls[1][2], "head_object", "ok")
    /\ store = prev[1].store

(***************************************************************************)
(* C16: the frame of the store.                                            *)
(***************************************************************************)
Changed == {p \in StorePaths : store'[p] # store[p]}

\* C16: a step changes the store only when it is the successful put of the
\* message being handled, and then at the one path (message bucket,
\* metadata_key), where nothing was stored before and the document is stored
\* after; a step that skips a message, or in which the message being handled
\* fails, changes nothing, so the documents of the earlier messages stay;
\* no object at a source key is ever written or deleted.
C16_StoreFrame ==
    [][/\ Changed # {} =>
            \E w \in Workers :
                LET p == <<local[w].bucket, local[w].metadata_key>> IN
                /\ pc[w] = "put"
                /\ Changed = {p}
                /\ store[p] = Absent
                /\ store'[p] = Document(local[w].Body)
                /\ calls'[w] = Append(calls[w],
                                 Call("put_object", i[w], p[1], p[2], "ok"))
       /\ \A p \in StorePaths : p[2] \in SourceKeys => store'[p] = store[p]
       /\ \A w \in Workers :
            \/ pc'[w] = "raised" /\ pc[w] # "raised" /\ i'[w] = i[w]
            \/ pc[w] = "head" /\ pc'[w] # "head"
            \/ pc[w] = "get"
            => store' = store]_vars

\* message 1 was written, message 2 failed to decode: the invocation raised,
\* the document of message 1 and both source objects are in the store
C16_Witness ==
    /\ event[1] = <<MsgAX, MsgY>>
    /\ pc[1] = "raised"
    /\ i[1] = 2
    /\ Len(calls[1]) = 5
    /\ IsCall(calls[1][3], "put_object", "ok")
    /\ IsCall(calls[1][5], "get_object", "ok")
    /\ store[<<"b", MetadataKey(<<"x">>)>>] # Absent
    /\ store[<<"b", KeyAX>>] = World1[<<"b", KeyAX>>]
    /\ store[<<"c", KeyY>>] = World1[<<"c", KeyY>>]
    /\ store[<<"c", MetadataKey(<<"y">>)>>] = Absent

(***************************************************************************)
(* C17: the gate ignores the identity of the source.                       *)
(***************************************************************************)
\* the message worker w is handling
Message(w) == event[w][i[w]].obj

\* the store call worker w issues in this step
Issued(w) == calls'[w][Len(calls'[w])]

\* C17: the probe of a message goes to the message's bucket and to
\* <output_prefix>/<last path segment of the key>.json, whatever the rest of
\* the key and the etag are; when an object is stored there and the probe
\* does not fail, the message is skipped: the probe is answered ok, the loop
\* moves to the next record without a fetch or a write, and the store is
\* unchanged.  A stored document never changes, and a document that is
\* created carries the key and the etag of the message that wrote it: the
\* document keeps the source_key and etag of its first writer.
C17_GateIgnoresSource ==
    [][/\ \A w \in Workers :
            (pc[w] = "head" /\ calls'[w] # calls[w]) =>
                LET c == Issued(w)
                    target == store[<<c.Bucket, c.Key>>]
                IN /\ c.op = "head_object"
                   /\ c.Bucket = Message(w).bucket
                   /\ \E s \in {SubSeq(Message(w).key, a, b) :
                                  a, b \in 1..Len(Message(w).key)} :
                         /\ IsLastSegment(Message(w).key, s)
                         /\ c.Key = OUTPUT_PREFIX \o <<"/">> \o s \o DotJson
                   /\ (target # Absent /\ c.res # "403") =>
                         /\ c.res = "ok"
                         /\ i'[w] = i[w] + 1
                         /\ pc'[w] \notin {"get", "put"}
                         /\ store' = store
       /\ \A p \in StorePaths :
            /\ store[p] # Absent => store'[p] = store[p]
            /\ (store[p] = Absent /\ store'[p] # Absent) =>
                  \E w \in Workers :
                      /\ pc[w] = "put"
                      /\ store'[p].Body.source_key = Message(w).key
                      /\ store'[p].Body.etag =
                            IF "etag" \in DOMAIN Message(w)
                            THEN PyStr(Message(w).etag) ELSE None]_vars

\* the document for filename x was written from a/x with the first etag; a
\* later batch with b/x and with a/x under another etag was skipped whole,
\* and the document is still the one of a/x with the first etag
C17_Witness ==
    /\ event[1] = <<MsgBX, MsgAX2>>
    /\ pc[1] = "returned"
    /\ Len(calls[1]) = 2
    /\ IsCall(calls[1][1], "head_object", "ok")
    /\ IsCall(calls[1][2], "head_object", "ok")
    /\ calls[1][1].Key = calls[1][2].Key
    /\ store[<<"b", MetadataKey(<<"x">>)>>] # Absent
    /\ store[<<"b", MetadataKey(<<"x">>)>>].Body.source_key = KeyAX
    /\ store[<<"b", MetadataKey(<<"x">>)>>].Body.etag = PyStr(MsgAX.obj.etag)

(***************************************************************************)
(* C18: convergence under redelivery.                                      *)
(***************************************************************************)
\* the path of the document of a record that parses
TargetOf(body) ==
    LET p == ParseRecord(body) IN <<p.bucket, p.metadata_key>>

\* handling the record fails whenever it is tried: the body is malformed, or
\* the source object is missing, does not decode or does not serialize
Broken(body) ==
    LET p == ParseRecord(body) IN
    \/ p.raised
    \/ store[<<p.bucket, p.key>>] = Absent
    \/ Unusable([Bucket |-> p.bucket, Key |-> p.key])

\* record n of the batch fails in every delivery from here on: it is broken
\* and no document stands in for it
KeepsFailing(n) ==
    /\ Broken(event[1][n])
    /\ ParseRecord(event[1][n]).raised \/ store[TargetOf(event[1][n])] = Absent

Delivered == pc[1] # "idle"

TransientOnly == \A n \in DOMAIN event[1] : ~Broken(event[1][n])

Converged ==
    /\ pc[1] = "returned"
    /\ result[1] = Success
    /\ \A n \in DOMAIN event[1] :
          /\ ~ParseRecord(event[1][n]).raised
          /\ store[TargetOf(event[1][n])] # Absent

\* C18: when the batch is redelivered after every invocation that raised and
\* no record of it is broken (the store calls fail finitely often), an
\* invocation eventually returns the success status, and from then on a
\* document is stored at the metadata_key of every record of the batch.
\* Conversely, while record n keeps failing, no store call is made for a
\* record after n, and a document at the metadata_key of a record after n is
\* the document of a record before n with the same filename.
C18_Convergence ==
    /\ [](Delivered /\ TransientOnly => <>[]Converged)
    /\ [](\A n \in DOMAIN event[1] :
            KeepsFailing(n) =>
                \A m \in (n + 1)..Len(event[1]) :
                    /\ CallsOf(1, m) = {}
                    /\ ~ParseRecord(event[1][m]).raised =>
                          LET t == TargetOf(event[1][m]) IN
                          store[t] # Absent =>
                              \E j \in 1..(n - 1) :
                                  /\ ~ParseRecord(event[1][j]).raised
                                  /\ TargetOf(event[1][j]) = t
                                  /\ store[t].Body.source_key =
                                        ParseRecord(event[1][j]).key)

\* two deliveries of the batch raised on a failed store call; the third
\* returned, and the document is stored
C18_Witness ==
    /\ event[1] = <<MsgAX>>
    /\ invocations[1] = MaxInvocationsLive
    /\ faults = MaxFaultsLive
    /\ prev[1] # NoPrev
    /\ prev[1].result = Raised
    /\ Converged

=============================================================================
